---- MODULE Spec2Model ----
(***************************************************************************)
(* The offline reconciliation engine of the crop-diagnosis client:         *)
(*   sync-engine/db.js          the record store (IndexedDB 'submissions') *)
(*   sync-engine/SyncManager.js saveSubmission and syncQueue               *)
(*   App.jsx                    the triggers that invoke syncQueue         *)
(* Every await of the source is a step boundary: between two steps of one  *)
(* handler any other handler may take steps.                               *)
(***************************************************************************)
EXTENDS Integers, Sequences, FiniteSets, TLC

(* Bounds of the model. *)
MaxRecords == 2         \* identities uuidv4 can hand out
MaxRuns == 2            \* handleSync invocations in one behaviour
MaxStoreFailures == 1   \* store calls that reject in one behaviour

Ids == 1..MaxRecords
Runs == 1..MaxRuns
Texts == {"notes"}
Images == {"null", "blob"}
Messages == {"Received"}

VARIABLES
    store,          \* object store 'submissions': id -> record (keyPath 'id')
    now,            \* the clock read by new Date() / Date.now()
    isOnline,       \* navigator.onLine, mirrored by App's isOnline state
    appQueueLen,    \* length of App's `queue` state (last refreshData)
    pc,             \* position of each handleSync/syncQueue invocation
    queue,          \* syncQueue's local `queue`: the pending snapshot
    idx,            \* position of the for-of loop in `queue` (1-based)
    syncedCount,    \* syncQueue's local `syncedCount`
    result,         \* the parsed body of the last success response
    net,            \* requests issued by fetch and not yet answered
    acked,          \* ids for which a success response reached the client
    storeFailures,  \* store calls that have rejected so far
    overlapped,     \* history: the invocation ran while another was active
    storeErr,       \* history: a store call of the run rejected
    outcome,        \* history: per item of the run, how its transmission ended
    lastFinal,      \* history: loop position of the run's last completed final write
    transitions,    \* history: writes of the run that turned a status into synced
    saveCall,       \* history: arguments and return value of the last saveSubmission
    interrupted,    \* history: ids left uploading when the process last stopped
    concurrent      \* history: some run was started while another was in progress

vars == <<store, now, isOnline, appQueueLen, pc, queue, idx,
          syncedCount, result, net, acked, storeFailures, overlapped,
          storeErr, outcome, lastFinal, transitions, saveCall, interrupted,
          concurrent>>

appVars == <<isOnline, appQueueLen>>
hist == <<storeErr, outcome, lastFinal, transitions>>
runVars == <<pc, queue, idx, syncedCount, result, overlapped, concurrent, hist>>
calls == <<saveCall, interrupted>>

(***************************************************************************)
(* db.js                                                                   *)
(***************************************************************************)
RECURSIVE KeyOrder(_)
KeyOrder(S) ==
    IF S = {} THEN <<>>
    ELSE LET k == CHOOSE x \in S : \A y \in S : x <= y
         IN  <<k>> \o KeyOrder(S \ {k})

\* db.getAll(STORE_NAME): every record, in key order.
GetAll(st) ==
    LET keys == KeyOrder(DOMAIN st)
    IN  [n \in 1..Len(keys) |-> st[keys[n]]]

\* db.put(STORE_NAME, submission): upsert keyed by id.
DbSaveInsertOnly(st, submission) ==
    IF submission.id \in DOMAIN st THEN st
    ELSE [k \in DOMAIN st \cup {submission.id} |->
             IF k = submission.id THEN submission ELSE st[k]]
DbSave(st, submission) ==
    [k \in DOMAIN st \cup {submission.id} |->
        IF k = submission.id THEN submission ELSE st[k]]

IsPendingQueuedOnly(item) == item.status = "queued"
IsPendingOrSynced(item) == item.status \in {"queued", "syncing", "uploading", "synced"}
IsPending(item) == item.status \in {"queued", "syncing", "uploading"}

GetPendingSubmissions(st) == SelectSeq(GetAll(st), IsPending)

IsHistory(item) == item.status = "synced" \/ item.status = "diagnosis_ready"

\* The synced records; the sort by createdAt does not change the set.
GetHistory(st) == {st[k] : k \in {j \in DOMAIN st : IsHistory(st[j])}}

\* Object.assign(item, extraData)
Assign(item, extraData) ==
    [f \in DOMAIN item \cup DOMAIN extraData |->
        IF f \in DOMAIN extraData THEN extraData[f] ELSE item[f]]

\* updateStatus: one readwrite transaction (store.get, then store.put of the
\* changed item under its keyPath); a missing id writes nothing.
UpdateStatusDeleting(st, id, status, extraData) ==
    IF id \in DOMAIN st
    THEN IF status = "synced"
         THEN [k \in DOMAIN st \ {id} |-> st[k]]
         ELSE DbSave(st, Assign([st[id] EXCEPT !.status = status], extraData))
    ELSE st
UpdateStatus(st, id, status, extraData) ==
    IF id \in DOMAIN st
    THEN DbSave(st, Assign([st[id] EXCEPT !.status = status], extraData))
    ELSE st

\* A put that rejects: the transaction aborts and the store is as before.
RejectedPutPartial(st, submission) == DbSave(st, submission)
RejectedPut(st, submission) == st

NoExtra == <<>>

(***************************************************************************)
(* SyncManager.js                                                          *)
(***************************************************************************)
\* uuidv4(): an identity no record carries yet (the next unused one).
Uuidv4Constant(st) == 1
Uuidv4(st) == Cardinality(DOMAIN st) + 1

\* The submission object built by saveSubmission.
NewSubmissionNoImage(id, data, imageFile, t) ==
    [id |-> id, data |-> data, image |-> "null", createdAt |-> t,
     status |-> "queued", response |-> "null"]
NewSubmission(id, data, imageFile, t) ==
    [id |-> id, data |-> data, image |-> imageFile, createdAt |-> t,
     status |-> "queued", response |-> "null"]

\* `if (item.image)`: null is falsy, a Blob is truthy.
HasImageNever(item) == FALSE
HasImage(item) == item.image # "null"

\* The outbound request of one item.
RequestOtherId(item) ==
    [kind |-> "json", submissions |-> <<[item EXCEPT !.id = item.id + 1]>>]
Request(item) ==
    IF HasImage(item)
    THEN [kind |-> "multipart",
          image |-> item.image,
          submission |-> [id |-> item.id, data |-> item.data,
                          createdAt |-> item.createdAt, status |-> item.status]]
    ELSE [kind |-> "json", submissions |-> <<item>>]

RequestId(req) ==
    IF req.kind = "multipart" THEN req.submission.id ELSE req.submissions[1].id

\* extraData of the synced write.
SyncedExtraAsResponse(t, res) == [syncedAt |-> t, response |-> res.message]
SyncedExtraNoMessage(t, res) == [syncedAt |-> t]
SyncedExtra(t, res) == [syncedAt |-> t, serverMessage |-> res.message]

\* `if (queue.length === 0) return { synced: 0 }`, else enter the loop.
AfterRead(q) == IF Len(q) = 0 THEN "done" ELSE "markUploading"

\* The end of one loop iteration: next item, or `return { synced }`.
LoopPcStopOnFailure(r) ==
    IF idx[r] < Len(queue[r]) /\ outcome[r][idx[r]] = "ok" THEN "markUploading" ELSE "done"
LoopPc(r) == IF idx[r] < Len(queue[r]) THEN "markUploading" ELSE "done"
LoopIdxRetry(r) ==
    IF idx[r] < Len(queue[r]) /\ outcome[r][idx[r]] # "failed" THEN idx[r] + 1 ELSE idx[r]
LoopIdx(r) == IF idx[r] < Len(queue[r]) THEN idx[r] + 1 ELSE idx[r]

\* `if (response.ok) {...} else {...}`
ResponsePcIgnoringOk(ok) == "markSynced"
ResponsePc(ok) == IF ok THEN "markSynced" ELSE "revert"

\* A rejection inside the try block lands in the catch block.
TryFailurePc == "catch"
\* `response = await fetch(...)`: the loop waits for the answer.
FetchPcNoAwait == "catch"
FetchPc == "awaitResponse"
\* A rejection inside the catch block leaves syncQueue.
CatchFailurePc == "threw"

\* const item = queue[i]
ItemNewest(r) == GetAll(store)[Len(GetAll(store))]
Item(r) == queue[r][idx[r]]

StatusOf(st, id) == IF id \in DOMAIN st THEN st[id].status ELSE "absent"

NoResult == [message |-> "none"]

(***************************************************************************)
(* App.jsx                                                                 *)
(***************************************************************************)
\* handleSync has been called and its finally block has not finished.
Active(r) == pc[r] \notin {"idle", "closed"}
\* syncQueue is running inside the invocation.
InProgress(r) == pc[r] \notin {"idle", "done", "threw", "closed"}

Started == {r \in Runs : pc[r] # "idle"}

\* handleSync(): calls syncQueue, whatever else is running.
HandleSync ==
    /\ Cardinality(Started) < MaxRuns
    /\ LET r == Cardinality(Started) + 1
           others == {q \in Runs : Active(q)}
       IN  /\ pc' = [pc EXCEPT ![r] = "getPending"]
           /\ overlapped' = [q \in Runs |->
                 overlapped[q] \/ (others # {} /\ (q \in others \/ q = r))]
           /\ concurrent' = (concurrent \/ \E q \in Runs : InProgress(q))
    /\ UNCHANGED <<queue, idx, syncedCount, result, hist>>

Init ==
    /\ store = <<>>
    /\ now = 1
    /\ isOnline \in BOOLEAN
    /\ appQueueLen = 0
    /\ pc = [r \in Runs |-> "idle"]
    /\ queue = [r \in Runs |-> <<>>]
    /\ idx = [r \in Runs |-> 0]
    /\ syncedCount = [r \in Runs |-> 0]
    /\ result = [r \in Runs |-> NoResult]
    /\ net = {}
    /\ acked = {}
    /\ storeFailures = 0
    /\ overlapped = [r \in Runs |-> FALSE]
    /\ storeErr = [r \in Runs |-> FALSE]
    /\ outcome = [r \in Runs |-> <<>>]
    /\ lastFinal = [r \in Runs |-> 0]
    /\ transitions = [r \in Runs |-> 0]
    /\ saveCall = <<>>
    /\ interrupted = {}
    /\ concurrent = FALSE

\* What saveSubmission was called with and what it returned (nothing when
\* it rejected).
SaveCall(data, imageFile, returned) ==
    <<[data |-> data, image |-> imageFile, returned |-> returned]>>

\* handleSubmit, the store write succeeding: saveSubmission, refreshData,
\* then handleSync when navigator.onLine.
HandleSubmit(text, imageFile) ==
    /\ ~(text = "" /\ imageFile = "null")
    /\ Uuidv4(store) \in Ids
    /\ LET data == [text |-> text, timestamp |-> now]
           submission == NewSubmission(Uuidv4(store), data, imageFile, now)
       IN  /\ store' = DbSave(store, submission)
           /\ saveCall' = SaveCall(data, imageFile, <<submission>>)
    /\ now' = now + 1
    /\ appQueueLen' = Len(GetPendingSubmissions(store'))
    /\ IF isOnline THEN HandleSync ELSE UNCHANGED runVars
    /\ UNCHANGED <<isOnline, net, acked, storeFailures, interrupted>>

\* The store write of saveSubmission rejects: saveSubmission and handleSubmit
\* reject with it.
HandleSubmitFails(text, imageFile) ==
    /\ ~(text = "" /\ imageFile = "null")
    /\ Uuidv4(store) \in Ids
    /\ storeFailures < MaxStoreFailures
    /\ storeFailures' = storeFailures + 1
    /\ LET data == [text |-> text, timestamp |-> now]
       IN  /\ store' = RejectedPut(store, NewSubmission(Uuidv4(store), data, imageFile, now))
           /\ saveCall' = SaveCall(data, imageFile, <<>>)
    /\ UNCHANGED <<now, net, acked, interrupted>>
    /\ UNCHANGED appVars
    /\ UNCHANGED runVars

\* The 'online' event; the effect on [isOnline] syncs when the queue state is non-empty.
GoOnline ==
    /\ ~isOnline
    /\ isOnline' = TRUE
    /\ IF appQueueLen > 0 THEN HandleSync ELSE UNCHANGED runVars
    /\ UNCHANGED <<store, now, appQueueLen, net, acked, storeFailures>>
    /\ UNCHANGED calls

\* The 'offline' event.
GoOffline ==
    /\ UNCHANGED calls
    /\ isOnline
    /\ isOnline' = FALSE
    /\ UNCHANGED <<store, now, appQueueLen, net, acked, storeFailures>>
    /\ UNCHANGED runVars

\* The Force Sync button: disabled={queue.length === 0 || !isOnline}.
ForceSync ==
    /\ appQueueLen > 0
    /\ isOnline
    /\ HandleSync
    /\ UNCHANGED <<store, now, net, acked, storeFailures>>
    /\ UNCHANGED appVars
    /\ UNCHANGED calls

\* setInterval(refreshData, 500) while a handleSync awaits syncQueue.
Poll ==
    /\ UNCHANGED calls
    /\ \E r \in Runs : InProgress(r)
    /\ appQueueLen' = Len(GetPendingSubmissions(store))
    /\ appQueueLen' # appQueueLen
    /\ UNCHANGED <<store, now, isOnline, net, acked, storeFailures>>
    /\ UNCHANGED runVars

\* handleSync's finally block: clearInterval and a last refreshData; the
\* locals of the finished syncQueue call are gone.
Finally(r) ==
    /\ UNCHANGED calls
    /\ pc[r] \in {"done", "threw"}
    /\ pc' = [pc EXCEPT ![r] = "closed"]
    /\ appQueueLen' = Len(GetPendingSubmissions(store))
    /\ queue' = [queue EXCEPT ![r] = <<>>]
    /\ idx' = [idx EXCEPT ![r] = 0]
    /\ syncedCount' = [syncedCount EXCEPT ![r] = 0]
    /\ overlapped' = [overlapped EXCEPT ![r] = FALSE]
    /\ storeErr' = [storeErr EXCEPT ![r] = FALSE]
    /\ outcome' = [outcome EXCEPT ![r] = <<>>]
    /\ lastFinal' = [lastFinal EXCEPT ![r] = 0]
    /\ transitions' = [transitions EXCEPT ![r] = 0]
    /\ UNCHANGED <<store, now, isOnline, net, acked, storeFailures, result>>
    /\ UNCHANGED concurrent

\* The records whose stored status is uploading.
Uploading(st) == {k \in DOMAIN st : st[k].status = "uploading"}

\* The process stops while syncQueue is running and the application is
\* opened again: the store is what was written, everything in memory and
\* every outstanding request is gone, and mounting App calls refreshData.
Restart ==
    /\ \E r \in Runs : InProgress(r)
    /\ interrupted' = Uploading(store)
    /\ pc' = [r \in Runs |-> IF pc[r] = "idle" THEN "idle" ELSE "closed"]
    /\ queue' = [r \in Runs |-> <<>>]
    /\ idx' = [r \in Runs |-> 0]
    /\ syncedCount' = [r \in Runs |-> 0]
    /\ result' = [r \in Runs |-> NoResult]
    /\ overlapped' = [r \in Runs |-> FALSE]
    /\ storeErr' = [r \in Runs |-> FALSE]
    /\ outcome' = [r \in Runs |-> <<>>]
    /\ lastFinal' = [r \in Runs |-> 0]
    /\ transitions' = [r \in Runs |-> 0]
    /\ net' = {}
    /\ saveCall' = <<>>
    /\ appQueueLen' = Len(GetPendingSubmissions(store))
    /\ UNCHANGED <<store, now, isOnline, acked, storeFailures, concurrent>>

(***************************************************************************)
(* syncQueue, one step per await                                           *)
(***************************************************************************)
\* const queue = await getPendingSubmissions(); the empty-queue return.
GetPending(r) ==
    /\ UNCHANGED calls
    /\ pc[r] = "getPending"
    /\ LET q == GetPendingSubmissions(store)
       IN  /\ queue' = [queue EXCEPT ![r] = q]
           /\ pc' = [pc EXCEPT ![r] = AfterRead(q)]
           /\ idx' = [idx EXCEPT ![r] = IF Len(q) = 0 THEN 0 ELSE 1]
    /\ UNCHANGED <<store, now, net, acked, storeFailures>>
    /\ UNCHANGED <<syncedCount, result, overlapped, concurrent, hist>>
    /\ UNCHANGED appVars

\* The read of the pending set rejects: syncQueue rejects.
GetPendingFails(r) ==
    /\ UNCHANGED calls
    /\ pc[r] = "getPending"
    /\ storeFailures < MaxStoreFailures
    /\ storeFailures' = storeFailures + 1
    /\ pc' = [pc EXCEPT ![r] = "threw"]
    /\ storeErr' = [storeErr EXCEPT ![r] = TRUE]
    /\ UNCHANGED <<store, now, net, acked>>
    /\ UNCHANGED <<queue, idx, syncedCount, result, overlapped, concurrent>>
    /\ UNCHANGED <<outcome, lastFinal, transitions>>
    /\ UNCHANGED appVars

\* A status write of the loop that rejects: nothing is written.
WriteFails(r, nextPc) ==
    /\ UNCHANGED calls
    /\ storeFailures < MaxStoreFailures
    /\ storeFailures' = storeFailures + 1
    /\ pc' = [pc EXCEPT ![r] = nextPc]
    /\ storeErr' = [storeErr EXCEPT ![r] = TRUE]
    /\ UNCHANGED <<store, now, net, acked>>
    /\ UNCHANGED <<queue, idx, syncedCount, overlapped, concurrent, lastFinal, transitions>>
    /\ UNCHANGED appVars

\* await updateStatus(item.id, 'uploading'), then the request is built and
\* handed to fetch: no await lies between the two.
MarkUploadingUnlessClaimed(r) ==
    /\ UNCHANGED calls
    /\ pc[r] = "markUploading"
    /\ IF StatusOf(store, Item(r).id) = "queued"
       THEN /\ store' = UpdateStatus(store, Item(r).id, "uploading", NoExtra)
            /\ net' = net \cup {[run |-> r, idx |-> idx[r], req |-> Request(Item(r))]}
            /\ pc' = [pc EXCEPT ![r] = FetchPc]
            /\ UNCHANGED idx
       ELSE /\ pc' = [pc EXCEPT ![r] = LoopPc(r)]
            /\ idx' = [idx EXCEPT ![r] = LoopIdx(r)]
            /\ UNCHANGED <<store, net>>
    /\ UNCHANGED <<now, acked, storeFailures>>
    /\ UNCHANGED <<queue, syncedCount, result, overlapped, concurrent, hist>>
    /\ UNCHANGED appVars
MarkUploading(r) ==
    /\ UNCHANGED calls
    /\ pc[r] = "markUploading"
    /\ store' = UpdateStatus(store, Item(r).id, "uploading", NoExtra)
    /\ net' = net \cup {[run |-> r, idx |-> idx[r], req |-> Request(Item(r))]}
    /\ pc' = [pc EXCEPT ![r] = FetchPc]
    /\ UNCHANGED <<now, acked, storeFailures>>
    /\ UNCHANGED <<queue, idx, syncedCount, result, overlapped, concurrent, hist>>
    /\ UNCHANGED appVars

MarkUploadingFails(r) ==
    /\ pc[r] = "markUploading"
    /\ WriteFails(r, TryFailurePc)
    /\ outcome' = [outcome EXCEPT ![r] = Append(@, "unsent")]
    /\ UNCHANGED result

\* The answer to run r's outstanding request arrives.
Answered(r, how, nextPc) ==
    /\ UNCHANGED calls
    /\ pc[r] = "awaitResponse"
    /\ \E m \in net : m.run = r /\ net' = net \ {m}
    /\ pc' = [pc EXCEPT ![r] = nextPc]
    /\ outcome' = [outcome EXCEPT ![r] = Append(@, how)]
    /\ UNCHANGED <<store, now, storeFailures>>
    /\ UNCHANGED <<queue, idx, syncedCount, overlapped, concurrent, storeErr, lastFinal, transitions>>
    /\ UNCHANGED appVars

\* response.ok, and response.json() yields a body with a message.
RespondOk(r, message) ==
    /\ Answered(r, "ok", ResponsePc(TRUE))
    /\ result' = [result EXCEPT ![r] = [message |-> message]]
    /\ acked' = acked \cup {Item(r).id}

\* response.ok, but response.json() rejects (the body is cut short or is not
\* JSON): an exception thrown during the transmission, no success response.
RespondUnparsable(r) ==
    /\ Answered(r, "failed", TryFailurePc)
    /\ UNCHANGED <<acked, result>>

\* A non-2xx response; response.text() yields the error text.
RespondRejected(r) ==
    /\ Answered(r, "failed", ResponsePc(FALSE))
    /\ UNCHANGED <<acked, result>>

\* A non-2xx response whose response.text() rejects.
RespondRejectedUnreadable(r) ==
    /\ Answered(r, "failed", TryFailurePc)
    /\ UNCHANGED <<acked, result>>

\* fetch rejects (connection refused, timeout).
FetchThrows(r) ==
    /\ Answered(r, "failed", TryFailurePc)
    /\ UNCHANGED <<acked, result>>

\* The final status write of the current item has completed: next iteration.
Completed(r) ==
    /\ UNCHANGED calls
    /\ pc' = [pc EXCEPT ![r] = LoopPc(r)]
    /\ idx' = [idx EXCEPT ![r] = LoopIdx(r)]
    /\ lastFinal' = [lastFinal EXCEPT ![r] = idx[r]]
    /\ UNCHANGED <<net, acked, storeFailures, queue, overlapped, concurrent, storeErr, outcome>>
    /\ UNCHANGED appVars

\* await updateStatus(item.id, 'synced', {syncedAt, serverMessage}); syncedCount++
MarkSynced(r) ==
    /\ pc[r] = "markSynced"
    /\ store' = UpdateStatus(store, Item(r).id, "synced", SyncedExtra(now, result[r]))
    /\ syncedCount' = [syncedCount EXCEPT ![r] = @ + 1]
    /\ transitions' = [transitions EXCEPT ![r] =
                         IF StatusOf(store, Item(r).id) # "synced" THEN @ + 1 ELSE @]
    /\ result' = [result EXCEPT ![r] = NoResult]
    /\ Completed(r)
    /\ UNCHANGED now

MarkSyncedFails(r) ==
    /\ pc[r] = "markSynced"
    /\ WriteFails(r, TryFailurePc)
    /\ result' = [result EXCEPT ![r] = NoResult]
    /\ UNCHANGED outcome

\* The status written by the else branch and by the catch block.
RevertStatusUploading == "uploading"
RevertStatusFailed == "failed"
RevertStatus == "queued"

\* else branch: await updateStatus(item.id, 'queued')
Revert(r) ==
    /\ pc[r] = "revert"
    /\ store' = UpdateStatus(store, Item(r).id, RevertStatus, NoExtra)
    /\ Completed(r)
    /\ UNCHANGED <<now, syncedCount, result, transitions>>

RevertFails(r) ==
    /\ pc[r] = "revert"
    /\ WriteFails(r, TryFailurePc)
    /\ UNCHANGED <<result, outcome>>

\* catch block: await updateStatus(item.id, 'queued')
Catch(r) ==
    /\ pc[r] = "catch"
    /\ store' = UpdateStatus(store, Item(r).id, RevertStatus, NoExtra)
    /\ Completed(r)
    /\ UNCHANGED <<now, syncedCount, result, transitions>>

CatchFails(r) ==
    /\ pc[r] = "catch"
    /\ WriteFails(r, CatchFailurePc)
    /\ UNCHANGED <<result, outcome>>

Next ==
    \/ \E t \in Texts, f \in Images : HandleSubmit(t, f)
    \/ \E t \in Texts, f \in Images : HandleSubmitFails(t, f)
    \/ GoOnline
    \/ GoOffline
    \/ ForceSync
    \/ Poll
    \/ \E r \in Runs : Finally(r)
    \/ \E r \in Runs : GetPending(r)
    \/ \E r \in Runs : GetPendingFails(r)
    \/ \E r \in Runs : MarkUploading(r)
    \/ \E r \in Runs : MarkUploadingFails(r)
    \/ \E r \in Runs, m \in Messages : RespondOk(r, m)
    \/ \E r \in Runs : RespondUnparsable(r)
    \/ \E r \in Runs : RespondRejected(r)
    \/ \E r \in Runs : RespondRejectedUnreadable(r)
    \/ \E r \in Runs : FetchThrows(r)
    \/ \E r \in Runs : MarkSynced(r)
    \/ \E r \in Runs : MarkSyncedFails(r)
    \/ \E r \in Runs : Revert(r)
    \/ \E r \in Runs : RevertFails(r)
    \/ \E r \in Runs : Catch(r)
    \/ \E r \in Runs : CatchFails(r)

Spec == Init /\ [][Next]_vars

\* The same program on a device that may stop at any moment of a run.
NextCrash ==
    \/ Next
    \/ Restart

SpecCrash == Init /\ [][NextCrash]_vars

(***************************************************************************)
(* The program with connectivity, a store that does not fail, and users    *)
(* who keep triggering runs: runs are numbered anew whenever none is       *)
(* active, so that any number of runs follow one another.                  *)
(***************************************************************************)
\* handleSync(), the runs numbered from 1 again when no invocation is active.
HandleSyncAgain ==
    LET others == {q \in Runs : Active(q)}
        r == IF others = {} THEN 1 ELSE Cardinality(Started) + 1
    IN  /\ r \in Runs
        /\ pc' = IF others = {}
                 THEN [q \in Runs |-> IF q = r THEN "getPending" ELSE "idle"]
                 ELSE [pc EXCEPT ![r] = "getPending"]
        /\ overlapped' = [q \in Runs |->
              overlapped[q] \/ (others # {} /\ (q \in others \/ q = r))]
        /\ concurrent' = (concurrent \/ \E q \in Runs : InProgress(q))
        /\ UNCHANGED <<queue, idx, syncedCount, result, hist>>

\* handleSubmit while navigator.onLine: saveSubmission, refreshData, handleSync.
HandleSubmitAgain(text, imageFile) ==
    /\ ~(text = "" /\ imageFile = "null")
    /\ Uuidv4(store) \in Ids
    /\ isOnline
    /\ LET data == [text |-> text, timestamp |-> now]
           submission == NewSubmission(Uuidv4(store), data, imageFile, now)
       IN  /\ store' = DbSave(store, submission)
           /\ saveCall' = SaveCall(data, imageFile, <<submission>>)
    /\ now' = now + 1
    /\ appQueueLen' = Len(GetPendingSubmissions(store'))
    /\ HandleSyncAgain
    /\ UNCHANGED <<isOnline, net, acked, storeFailures, interrupted>>

\* The Force Sync button, pressed again and again.
ForceSyncAgain ==
    /\ appQueueLen > 0
    /\ isOnline
    /\ HandleSyncAgain
    /\ UNCHANGED <<store, now, net, acked, storeFailures>>
    /\ UNCHANGED appVars
    /\ UNCHANGED calls

InitLive == Init /\ isOnline

\* Some answer to run r's request arrives: fetch resolves or rejects.
Responds(r) ==
    \/ \E m \in Messages : RespondOk(r, m)
    \/ RespondUnparsable(r)
    \/ RespondRejected(r)
    \/ RespondRejectedUnreadable(r)
    \/ FetchThrows(r)

\* The continuation of run r after a store call that resolved.
Continues(r) ==
    \/ GetPending(r)
    \/ MarkUploading(r)
    \/ MarkSynced(r)
    \/ Revert(r)
    \/ Catch(r)
    \/ Finally(r)

NextLive ==
    \/ \E t \in Texts, f \in Images : HandleSubmitAgain(t, f)
    \/ ForceSyncAgain
    \/ \E r \in Runs : Continues(r)
    \/ \E r \in Runs : Responds(r)

\* Every pending continuation is run and every request is answered; the
\* remote authority answers each record with success at some attempt; the
\* button is pressed whenever it stays or keeps becoming available.
Fairness ==
    /\ \A r \in Runs : WF_vars(Continues(r))
    /\ \A r \in Runs : WF_vars(Responds(r))
    /\ \A r \in Runs, k \in Ids :
          SF_vars(pc[r] = "awaitResponse" /\ Item(r).id = k
                    /\ \E m \in Messages : RespondOk(r, m))
    /\ SF_vars(ForceSyncAgain)

SpecLive == InitLive /\ [][NextLive]_vars /\ Fairness

(***************************************************************************)
(* Properties                                                              *)
(***************************************************************************)
Clean(r) == ~overlapped[r] /\ ~storeErr[r]

\* C1: in a run that no other run overlaps and whose store calls all succeed,
\* a failed transmission does not stop the loop: when the run returns, every
\* record of the snapshot has been transmitted, the records answered with
\* success are synced and the records whose transmission failed are queued.
PartialFailureIsolation ==
    \A r \in Runs :
        (pc[r] = "done" /\ Clean(r)) =>
            /\ Len(outcome[r]) = Len(queue[r])
            /\ \A k \in 1..Len(queue[r]) :
                  /\ outcome[r][k] \in {"ok", "failed"}
                  /\ outcome[r][k] = "ok" => StatusOf(store, queue[r][k].id) = "synced"
                  /\ outcome[r][k] = "failed" => StatusOf(store, queue[r][k].id) = "queued"

PartialFailureWitness ==
    \E r \in Runs :
        /\ pc[r] = "done" /\ Clean(r)
        /\ outcome[r] = <<"failed", "ok">>
        /\ StatusOf(store, queue[r][1].id) = "queued"
        /\ StatusOf(store, queue[r][2].id) = "synced"

\* C2: the count a run returns equals the number of records whose stored
\* status the run changed to synced.
ReturnedCountIsTransitions ==
    \A r \in Runs : pc[r] = "done" => syncedCount[r] = transitions[r]

\* The step of run r that ends the processing of its current item.
EndsItem(r) ==
    /\ pc[r] \in {"markSynced", "revert", "catch"}
    /\ pc'[r] \in {"markUploading", "done", "threw"}

TransmissionFailed(r) ==
    Len(outcome[r]) = idx[r] /\ outcome[r][idx[r]] = "failed"

Reverted(r) ==
    /\ StatusOf(store', Item(r).id) = "queued"
    /\ syncedCount'[r] = syncedCount[r]

AfterSuccess(r) == pc[r] = "markSynced" /\ pc'[r] # "markSynced"

MarkedSynced(r) ==
    LET rec == store'[Item(r).id]
    IN  /\ rec.status = "synced"
        /\ {"syncedAt", "serverMessage"} \subseteq DOMAIN rec
        /\ rec.syncedAt = now
        /\ rec.serverMessage = result[r].message
        /\ syncedCount'[r] = syncedCount[r] + 1

NothingPending(st) ==
    \A k \in DOMAIN st : st[k].status \notin {"queued", "uploading"}

\* C5: a run whose read of the pending set finds nothing pending returns
\* {synced: 0} in that step, with no request issued and no store write.
EmptyQueueShortCircuit ==
    [][\A r \in Runs :
          (pc[r] = "getPending" /\ pc'[r] \notin {"getPending", "threw"}
             /\ NothingPending(store))
          => /\ pc'[r] = "done"
             /\ syncedCount'[r] = 0
             /\ store' = store
             /\ net' = net]_vars

EmptyQueueWitness ==
    \E r \in Runs :
        /\ pc[r] = "done" /\ queue[r] = <<>> /\ syncedCount[r] = 0
        /\ \A m \in net : m.run # r

\* C6: every stored record is queued, uploading or synced, and a synced
\* record has been answered with a success response.
SyncedOnlyIfAcked ==
    \A k \in DOMAIN store :
        /\ store[k].status \in {"queued", "uploading", "synced"}
        /\ store[k].status = "synced" => k \in acked

SyncedAckedWitness ==
    \E k \in DOMAIN store, j \in DOMAIN store :
        /\ store[k].status = "synced" /\ k \in acked
        /\ store[j].status = "uploading" /\ j \notin acked

\* C7: a stored record carries syncedAt and serverMessage exactly when its
\* status is synced.
SyncedFieldsIffSynced ==
    \A k \in DOMAIN store :
        (store[k].status = "synced") <=>
            ("syncedAt" \in DOMAIN store[k] /\ "serverMessage" \in DOMAIN store[k])

\* C8: a synced record stays synced, and the only status changes are
\* queued -> uploading, uploading -> synced and uploading -> queued.
SyncedIsTerminal ==
    [][\A k \in DOMAIN store :
          \/ store'[k].status = store[k].status
          \/ <<store[k].status, store'[k].status>> \in
                {<<"queued", "uploading">>, <<"uploading", "synced">>,
                 <<"uploading", "queued">>}]_vars

\* C9: at most one syncQueue run is in progress at any time.
RunsSerialized ==
    Cardinality({r \in Runs : InProgress(r)}) <= 1

\* C10: a run has at most one request outstanding, and while the request of
\* its k-th record is outstanding the final status write of its (k-1)-th
\* record has completed.
SerialWithinRun ==
    \A r \in Runs :
        /\ Cardinality({m \in net : m.run = r}) <= 1
        /\ \A m \in net : m.run = r => lastFinal[r] = m.idx - 1

SerialWithinRunWitness ==
    \E m \in net : m.idx = 2 /\ lastFinal[m.run] = 1

\* The step hands a request for record k to fetch.
Transmitted(k) == \E m \in net' \ net : RequestId(m.req) = k

\* The ids of a pending set.
IdsOf(q) == {q[i].id : i \in 1..Len(q)}

DocumentedRace ==
    [][\A r \in Runs :
          (pc[r] = "markUploading" /\ pc'[r] # "markUploading"
              /\ storeFailures' = storeFailures)
          => \E m \in net' \ net : m.run = r /\ RequestId(m.req) = Item(r).id]_vars

DocumentedRaceWitness ==
    \E m \in net, n \in net :
        /\ m.run # n.run
        /\ RequestId(m.req) = RequestId(n.req)
        /\ queue[m.run][m.idx].status = "queued"
        /\ queue[n.run][n.idx].status = "queued"

\* C13: the request in flight for a record with an image is multipart with
\* the image and the sidecar {id, data, createdAt, status}; the request for
\* a record without image is JSON with body {submissions: [record]}, the
\* record being the one read in the pending set.
AttachmentBranching ==
    \A m \in net :
        LET item == queue[m.run][m.idx]
        IN  IF item.image # "null"
            THEN /\ m.req.kind = "multipart"
                 /\ m.req.image = item.image
                 /\ m.req.submission =
                       [id |-> item.id, data |-> item.data,
                        createdAt |-> item.createdAt, status |-> item.status]
            ELSE /\ m.req.kind = "json"
                 /\ m.req.submissions = <<item>>

AttachmentBranchingWitness ==
    \E m \in net, n \in net :
        /\ m.req.kind = "multipart" /\ m.req.image = "blob"
        /\ n.req.kind = "json" /\ n.req.submissions[1].image = "null"

\* C14: every request in flight carries the id of the record as read, which
\* is the id under which the record was created and is stored, and every
\* record a run has read is still stored under that id with the content and
\* the creation time it was read with, whatever statuses were written since.
IdempotentIdentity ==
    /\ \A m \in net :
          /\ RequestId(m.req) = queue[m.run][m.idx].id
          /\ RequestId(m.req) \in DOMAIN store
          /\ store[RequestId(m.req)].id = RequestId(m.req)
          /\ store[RequestId(m.req)].createdAt = queue[m.run][m.idx].createdAt
    /\ \A r \in Runs : \A i \in 1..Len(queue[r]) :
          /\ queue[r][i].id \in DOMAIN store
          /\ store[queue[r][i].id].data = queue[r][i].data
          /\ store[queue[r][i].id].createdAt = queue[r][i].createdAt

\* A run has reverted a record to queued and a later run is transmitting it.
IdempotentIdentityWitness ==
    /\ ~concurrent
    /\ \E r \in Runs, m \in net : \E i \in 1..Len(queue[r]) :
          /\ m.run # r
          /\ pc[r] = "done"
          /\ outcome[r][i] = "failed"
          /\ queue[r][i].id = RequestId(m.req)

\* The step is a call of saveSubmission that returns a record.
SaveReturns == saveCall' # saveCall /\ saveCall' # <<>> /\ saveCall'[1].returned # <<>>

\* The step is a call of saveSubmission that rejects.
SaveRejects == saveCall' # saveCall /\ saveCall' # <<>> /\ saveCall'[1].returned = <<>>

\* C15: the record saveSubmission returns has the data and image of the
\* call, status queued, response null and createdAt the time of the call,
\* and at the return it is stored as returned and is in the pending set.
SaveSubmissionResult ==
    [][SaveReturns =>
          LET call == saveCall'[1]
              rec == call.returned[1]
              pending == GetPendingSubmissions(store')
          IN  /\ rec.data = call.data
              /\ rec.image = call.image
              /\ rec.status = "queued"
              /\ rec.response = "null"
              /\ rec.createdAt = now
              /\ rec.id \in DOMAIN store'
              /\ store'[rec.id] = rec
              /\ \E i \in 1..Len(pending) : pending[i] = rec]_vars

SaveSubmissionResultWitness ==
    /\ saveCall # <<>>
    /\ saveCall[1].returned # <<>>
    /\ saveCall[1].image = "blob"
    /\ saveCall[1].returned[1].id \in DOMAIN store
    /\ store[saveCall[1].returned[1].id] = saveCall[1].returned[1]

\* C16: a call of saveSubmission whose store write fails returns no record
\* and leaves the store as it was, with no record under the generated id.
NoPartialCreation ==
    [][SaveRejects =>
          /\ store' = store
          /\ Uuidv4(store) \notin DOMAIN store']_vars

NoPartialCreationWitness ==
    /\ saveCall # <<>>
    /\ saveCall[1].returned = <<>>
    /\ saveCall[1].image = "blob"
    /\ DOMAIN store # {}
    /\ \A k \in DOMAIN store : store[k].image = "null"

HistoryPendingPartition ==
    LET all == {store[k] : k \in DOMAIN store}
        history == GetHistory(store)
        pending == {GetPendingSubmissions(store)[i] :
                       i \in 1..Len(GetPendingSubmissions(store))}
    IN  /\ history = {x \in all : x.status = "synced"}
        /\ pending = {x \in all : x.status \in {"queued", "uploading"}}
        /\ history \cap pending = {}
        /\ history \cup pending = all

HistoryPendingWitness ==
    /\ \E x \in GetHistory(store) : x.status = "synced"
    /\ \E i \in 1..Len(GetPendingSubmissions(store)) :
          GetPendingSubmissions(store)[i].status = "uploading"

\* C19: a run fails only when its read of the pending set fails, never
\* while it processes an item.
OnlyReadFailureIsFatal ==
    \A r \in Runs : pc[r] = "threw" => idx[r] = 0

\* The step keeps every stored record, with a status the next run handles.
RecordsKept ==
    \A k \in DOMAIN store :
        /\ k \in DOMAIN store'
        /\ store'[k].status \in {"queued", "uploading", "synced"}

\* The step is a read of the pending set by run r that succeeds.
ReadsPending(r) ==
    pc[r] = "getPending" /\ pc'[r] \notin {"getPending", "threw", "closed"}

\* After the step, the record that run r read as its i-th, left uploading
\* by an interrupted run, has been transmitted by r.
Retransmitted(r, i) ==
    (queue'[r][i].id \in interrupted' /\ queue'[r][i].status = "uploading")
        => (i \in DOMAIN outcome'[r] /\ outcome'[r][i] # "unsent")

IsSynced(k) == k \in DOMAIN store /\ store[k].status = "synced"

\* C22: under SpecLive a stored record that is queued, after a failed
\* transmission as well as after its creation, comes to be transmitted
\* (unless an overlapping run has synced it meanwhile), and every stored
\* record comes to be synced.
EventualReconciliation ==
    \A k \in Ids :
        /\ (k \in DOMAIN store /\ store[k].status = "queued")
              ~> ((\E m \in net : RequestId(m.req) = k) \/ IsSynced(k))
        /\ (k \in DOMAIN store) ~> IsSynced(k)

\* A record whose transmission failed in one run has been synced by a run
\* started after the failure.
EventualReconciliationWitness ==
    \E r \in Runs, q \in Runs : \E i \in 1..Len(queue[r]), j \in 1..Len(queue[q]) :
        /\ r # q
        /\ pc[r] = "done" /\ outcome[r][i] = "failed"
        /\ queue[q][j].id = queue[r][i].id
        /\ queue[q][j].status = "queued"
        /\ j \in DOMAIN outcome[q] /\ outcome[q][j] = "ok"
        /\ IsSynced(queue[r][i].id)
        /\ ~concurrent

\* The step starts a syncQueue run.
RunStarted == \E r \in Runs : pc[r] # "getPending" /\ pc'[r] = "getPending"

\* C23: a step in which the connectivity signal turns from offline to online
\* while the store holds a pending record starts a run, and so does a step
\* in which a submission completes while the signal is online.
AutoTrigger ==
    [][/\ (~isOnline /\ isOnline' /\ ~NothingPending(store)) => RunStarted
       /\ (SaveReturns /\ isOnline) => RunStarted]_vars

\* C21: the clock ticks once for every record created, and for every tick
\* so far the record created at it is in the store, under its id.
NoLoss ==
    /\ Cardinality(DOMAIN store) = now - 1
    /\ \A t \in 1..(now - 1) :
          \E k \in DOMAIN store : store[k].createdAt = t /\ store[k].id = k

\* Two records were created; a run has synced one and reverted the other.
NoLossWitness ==
    /\ now = 3
    /\ \E r \in Runs :
          /\ pc[r] = "done"
          /\ outcome[r] = <<"ok", "failed">>
          /\ queue[r][1].id \in DOMAIN store
          /\ queue[r][2].id \in DOMAIN store

\* The records the program may put: a new submission, or a stored record
\* with another status.
Puts(st) ==
    {[st[k] EXCEPT !.status = status] :
        k \in DOMAIN st, status \in {"queued", "uploading", "synced"}}
    \cup {NewSubmission(Uuidv4(st), [text |-> text, timestamp |-> now], image, now) :
            text \in Texts, image \in Images}

\* C24: on every reachable store and for every record, a put stores the
\* record under its id, replacing the record of that id if there is one,
\* changes no other record, and a second put of the same record changes
\* nothing.
UpsertIdempotent ==
    \A rec \in Puts(store) :
        LET once == DbSave(store, rec)
        IN  /\ DbSave(once, rec) = once
            /\ DOMAIN once = DOMAIN store \cup {rec.id}
            /\ once[rec.id] = rec
            /\ \A k \in DOMAIN store \ {rec.id} : once[k] = store[k]

\* A put has replaced one record while another one is stored beside it.
UpsertWitness ==
    \E k \in DOMAIN store, j \in DOMAIN store :
        /\ k # j
        /\ store[k].status = "uploading"
        /\ store[j].status = "queued"

\* The fields a run may write.
SyncFields == {"status", "syncedAt", "serverMessage"}

PcRank(p) ==
    CASE p = "markUploading" -> 1
      [] p = "awaitResponse" -> 2
      [] p \in {"markSynced", "revert"} -> 3
      [] p = "catch" -> 4
      [] OTHER -> 0

Rank(r) ==
    IF pc[r] \in {"done", "threw", "closed"} THEN 5 * (MaxRecords + 1)
    ELSE 5 * idx[r] + PcRank(pc[r])

SnapshotIsolation ==
    [][/\ \A r \in Runs :
             pc[r] \notin {"idle", "getPending", "closed"}
                => (queue'[r] = queue[r] \/ pc'[r] = "closed")
       /\ \A m \in net' \ net : RequestId(m.req) \in IdsOf(queue[m.run])
       /\ \A k \in DOMAIN store :
             (\A r \in Runs : k \notin IdsOf(queue[r]))
                => (k \in DOMAIN store' /\ store'[k] = store[k])]_vars

\* A run has returned; a record created after its read is still queued.
SnapshotIsolationWitness ==
    \E r \in Runs, k \in DOMAIN store :
        /\ pc[r] = "done"
        /\ queue[r] # <<>>
        /\ k \notin IdsOf(queue[r])
        /\ store[k].createdAt > queue[r][Len(queue[r])].createdAt
        /\ store[k].status = "queued"
        /\ \A q \in Runs : q # r => pc[q] = "idle"

====
